---- MODULE Spec2Model ----
(***************************************************************************)
(* A model of the planar geometry library of computational-geometry:       *)
(*   src/geometry/plane.py       Point, Segment, Triangle, Line, Circle    *)
(*   src/geometry/algorithms.py  convex_hull (Quickhull),                  *)
(*                               delaunay_triangulation (Bowyer-Watson),   *)
(*                               voronoi_diagram                           *)
(*                                                                         *)
(* Numbers.  The library computes with Python floats.  The model computes  *)
(* with exact rationals <<n, d>> (d > 0, lowest terms) and follows every   *)
(* formula of the source operation by operation.  The two square roots of  *)
(* the source (Point.distance_to, the radius in Circle.from_triangle) are  *)
(* only ever compared with each other, so the model keeps the squares and  *)
(* compares those (sqrt is monotone on the non-negative numbers).          *)
(*                                                                         *)
(* Iteration order.  The inputs are Python sets; every place where the     *)
(* source depends on the iteration order of a set (list(points), the       *)
(* first maximum found by max(), for p in points) is a nondeterministic    *)
(* choice here.                                                            *)
(*                                                                         *)
(* Local values of the source are parameters of helper operators here      *)
(* (FromTwoPoints computes m and hands it to LineWithSlope, and so on).    *)
(***************************************************************************)
EXTENDS Integers, Sequences, FiniteSets

\* Bounds of the model: the inputs are drawn from small integer grids.
MaxX == 2
MaxY == 3
MaxHullPoints == 5
MaxDtCoord == 2
MaxDtPoints == 4

(***************************************************************************)
(* Exact rational arithmetic standing for the float arithmetic.            *)
(***************************************************************************)
Abs(n) == IF n < 0 THEN -n ELSE n

RECURSIVE GCD(_, _)
GCD(a, b) == IF b = 0 THEN a ELSE GCD(b, a % b)

Reduce(n, d, g) == IF d < 0 THEN <<(-n) \div g, (-d) \div g>> ELSE <<n \div g, d \div g>>

Rat(n, d) == IF d = 1 THEN <<n, 1>> ELSE Reduce(n, d, GCD(Abs(n), Abs(d)))

I(n) == <<n, 1>>
Zero == I(0)
Half == <<1, 2>>

RAdd(a, b) == Rat(a[1] * b[2] + b[1] * a[2], a[2] * b[2])
RNeg(a) == <<-a[1], a[2]>>
RSub(a, b) == Rat(a[1] * b[2] - b[1] * a[2], a[2] * b[2])
RMul(a, b) == Rat(a[1] * b[1], a[2] * b[2])
\* The callers test the divisor first, as Python raises ZeroDivisionError.
RDiv(a, b) == Rat(a[1] * b[2], a[2] * b[1])
RLt(a, b) == a[1] * b[2] < b[1] * a[2]
RAbs(a) == <<Abs(a[1]), a[2]>>
RSq(a) == RMul(a, a)

(***************************************************************************)
(* plane.py: Point                                                         *)
(***************************************************************************)
Point(x, y) == [x |-> x, y |-> y]

\* Point.__mul__: the dot product.
Dot(p, q) == RAdd(RMul(p.x, q.x), RMul(p.y, q.y))

\* Point.distance_to, squared.
PointDistanceSq(p, q) == RAdd(RSq(RSub(p.x, q.x)), RSq(RSub(p.y, q.y)))

\* Point.midpoint.
Midpoint(p, q) == Point(RDiv(RAdd(p.x, q.x), I(2)), RDiv(RAdd(p.y, q.y), I(2)))

\* A total order on points, used only to store unordered pairs and triples
\* (Segment and Triangle compare and hash their points as a set).
PointBefore(p, q) == RLt(p.x, q.x) \/ (p.x = q.x /\ RLt(p.y, q.y))

(***************************************************************************)
(* plane.py: Line, the general equation a x + b y + c = 0                  *)
(***************************************************************************)
Line(a, b, c) == [a |-> a, b |-> b, c |-> c]

\* Line.__init__: slope = -a / b when b # 0 (None otherwise; read only when b # 0).
Slope(l) == RDiv(RNeg(l.a), l.b)

\* Line.from_two_points raises an Exception on two equal points.
FromTwoPointsRaises(p1, p2) == p1 = p2

\* plane.py 155-156: the line of slope m through p1.
LineWithSlope(m, p1) == Line(m, I(-1), RSub(p1.y, RMul(m, p1.x)))

FromTwoPoints(p1, p2) ==
    IF p1.x = p2.x
    THEN Line(I(1), Zero, RNeg(p1.x))
    ELSE LineWithSlope(RDiv(RSub(p2.y, p1.y), RSub(p2.x, p1.x)), p1)

\* plane.py 184-187: y, then x, then the distance from Point(x, y) to p.
DistanceFromY(l, p, y) ==
    PointDistanceSq(Point(RDiv(RNeg(RAdd(RMul(l.b, y), l.c)), l.a), y), p)

DistanceWithSlope(l, p, s) ==
    DistanceFromY(l, p,
        RDiv(RAdd(RAdd(RMul(s, l.c), RMul(p.y, l.a)), RMul(RMul(s, p.x), l.a)),
             RSub(l.a, RMul(s, l.b))))

\* Line.distance_to, squared.
LineDistanceSq(l, p) ==
    IF l.a = Zero THEN RSq(RAbs(RAdd(p.y, RDiv(l.c, l.b))))
    ELSE IF l.b = Zero THEN RSq(RAbs(RAdd(p.x, RDiv(l.c, l.a))))
    ELSE DistanceWithSlope(l, p, Slope(l))

\* Line.is_strictly_below: False for a point on the line.
IsStrictlyBelow(l, p) ==
    IF l.b = Zero
    THEN RLt(RDiv(RNeg(l.c), l.a), p.x)
    ELSE RLt(RDiv(RNeg(RAdd(RMul(p.x, l.a), l.c)), l.b), p.y)

\* Line.contains.
LineContains(l, p) == RAdd(RAdd(RMul(l.a, p.x), RMul(l.b, p.y)), l.c) = Zero

SlopeOrNone(l) == IF l.b = Zero THEN <<"None">> ELSE Slope(l)

\* Line.intersection: None for two lines of equal slope.
Intersects(l, other) == SlopeOrNone(l) # SlopeOrNone(other)

\* plane.py 207-208: the point of ordinate y on `line`.
PointAtY(line, y) ==
    Point(RSub(RDiv(RMul(RNeg(line.b), y), line.a), RDiv(line.c, line.a)), y)

Intersection(l, other) ==
    PointAtY(IF l.a # Zero THEN l ELSE other,
             RDiv(RSub(RMul(l.a, other.c), RMul(other.a, l.c)),
                  RSub(RMul(other.a, l.b), RMul(l.a, other.b))))

\* Line.orthogonal_line, for a point p the line contains (None otherwise).
OrthogonalLine(l, p) ==
    IF l.a = Zero THEN Line(I(1), Zero, RNeg(p.x))
    ELSE IF l.b = Zero THEN Line(Zero, I(1), RNeg(p.y))
    ELSE LineWithSlope(RDiv(I(-1), Slope(l)), p)

(***************************************************************************)
(* plane.py: Triangle.  Stored as the triple of its points in PointBefore  *)
(* order: Triangle.__eq__ and __hash__ ignore the order of the points.     *)
(***************************************************************************)
InOrder(p, q) == IF PointBefore(q, p) THEN <<q, p>> ELSE <<p, q>>

Insert3(pair, c) ==
    IF PointBefore(c, pair[1]) THEN <<c, pair[1], pair[2]>>
    ELSE IF PointBefore(c, pair[2]) THEN <<pair[1], c, pair[2]>>
    ELSE <<pair[1], pair[2], c>>

Triangle(a, b, c) == Insert3(InOrder(a, b), c)

\* plane.py 125: the test on d, s and t.
Barycentric(d, s, t) ==
    IF RLt(d, Zero)
    THEN RLt(s, Zero) /\ RLt(t, Zero) /\ RLt(d, RAdd(s, t))
    ELSE RLt(Zero, s) /\ RLt(Zero, t) /\ RLt(RAdd(s, t), d)

\* Triangle.strictly_contains, on the points in the order the caller gave them.
TriangleStrictlyContains(p1, p2, p3, p) ==
    Barycentric(
        RAdd(RMul(RSub(p2.y, p3.y), RSub(p1.x, p3.x)),
             RMul(RSub(p3.x, p2.x), RSub(p1.y, p3.y))),
        RAdd(RMul(RSub(p2.y, p3.y), RSub(p.x, p3.x)),
             RMul(RSub(p3.x, p2.x), RSub(p.y, p3.y))),
        RAdd(RMul(RSub(p3.y, p1.y), RSub(p.x, p3.x)),
             RMul(RSub(p1.x, p3.x), RSub(p.y, p3.y))))

\* Triangle.shares_point, the only vertex-sharing test class Triangle defines.
SharesPoint(t, other) ==
    \E i, j \in 1..3 : other[j] = t[i]

\* The methods class Triangle defines (plane.py 113 and 127).
TriangleMethods == {"strictly_contains", "shares_point"}

(***************************************************************************)
(* plane.py: Segment, an unordered pair of two distinct points, stored in  *)
(* PointBefore order (Segment.__eq__ and __hash__ ignore the order).       *)
(***************************************************************************)
\* Segment.__init__ raises an Exception when both ends are the same point.
SegmentRaises(p1, p2) == p1 = p2

Segment(p1, p2) == InOrder(p1, p2)

\* The list `edges` built from a triangle (algorithms.py 77-78 and 101).
Edges(t) == {Segment(t[1], t[2]), Segment(t[2], t[3]), Segment(t[3], t[1])}

EdgesRaise(t) ==
    SegmentRaises(t[1], t[2]) \/ SegmentRaises(t[2], t[3]) \/ SegmentRaises(t[3], t[1])

(***************************************************************************)
(* plane.py: Circle.  r2 is the square of the radius r of the source.      *)
(***************************************************************************)
\* d1 of Circle.from_triangle: the divisor of all three results.
CircleD1(a, b, c) ==
    RAdd(RSub(RMul(a.x, RSub(b.y, c.y)), RMul(b.x, RSub(a.y, c.y))),
         RMul(c.x, RSub(a.y, b.y)))

\* Circle.from_triangle divides by d1: ZeroDivisionError for collinear points.
FromTriangleRaises(t) == CircleD1(t[1], t[2], t[3]) = Zero

CircleSx(a, b, c, aa, bb, cc) ==
    RMul(Half, RAdd(RSub(RMul(aa, RSub(b.y, c.y)), RMul(bb, RSub(a.y, c.y))),
                    RMul(cc, RSub(a.y, b.y))))

CircleSy(a, b, c, aa, bb, cc) ==
    RMul(Half, RSub(RAdd(RMul(RNeg(aa), RSub(b.x, c.x)), RMul(bb, RSub(a.x, c.x))),
                    RMul(cc, RSub(a.x, b.x))))

CircleD2(a, b, c, aa, bb, cc) ==
    RAdd(RSub(RMul(aa, RSub(RMul(b.x, c.y), RMul(b.y, c.x))),
              RMul(bb, RSub(RMul(a.x, c.y), RMul(a.y, c.x)))),
         RMul(cc, RSub(RMul(a.x, b.y), RMul(a.y, b.x))))

\* plane.py 237: cls(s.x / d1, s.y / d1, (d2 / d1 + (s * s) / d1**2)**0.5)
CircleOf(s, d1, d2) ==
    [h |-> RDiv(s.x, d1), k |-> RDiv(s.y, d1),
     r2 |-> RAdd(RDiv(d2, d1), RDiv(Dot(s, s), RSq(d1)))]

CircleWith(a, b, c, aa, bb, cc) ==
    CircleOf(Point(CircleSx(a, b, c, aa, bb, cc), CircleSy(a, b, c, aa, bb, cc)),
             CircleD1(a, b, c),
             CircleD2(a, b, c, aa, bb, cc))

FromTriangle(t) ==
    CircleWith(t[1], t[2], t[3], Dot(t[1], t[1]), Dot(t[2], t[2]), Dot(t[3], t[3]))

\* Circle.strictly_contains: distance(center, p) < r.
CircleStrictlyContains(circle, p) ==
    RLt(PointDistanceSq(Point(circle.h, circle.k), p), circle.r2)

(***************************************************************************)
(* The inputs.                                                             *)
(***************************************************************************)
HullGrid == {Point(I(x), I(y)) : x \in 0..MaxX, y \in 0..MaxY}

\* The orders in which a set can be iterated: list(points).
RECURSIVE Orders(_)
Orders(S) ==
    IF S = {} THEN {<<>>}
    ELSE UNION {{<<x>> \o s : s \in Orders(S \ {x})} : x \in S}

SetOf(seq) == {seq[i] : i \in 1..Len(seq)}

DtGrid == {Point(I(x), I(y)) : x \in 0..MaxDtCoord, y \in 0..MaxDtCoord}

VARIABLES
    pts,            \* the set of points the caller passes
    chPc,           \* convex_hull: "idle", "running", "done"
    chRun,          \* 1: the first call; 2: the call on the points the first call returned
    chStack,        \* convex_hull: what is left to do, the innermost first
    hull,           \* convex_hull: the list `hull`
    chOutcome,      \* "none", "returned" or "Exception"
    caller,         \* "none", or the function the user called: "delaunay", "voronoi"
    dtPc,           \* delaunay_triangulation: "idle", "loop", "done"
    dtTodo,         \* the points `for p in points` has not reached yet
    dtOrder,        \* the points it has reached, in order
    triangulation,  \* delaunay_triangulation: the set `triangulation`
    dtOutcome,      \* "none", "returned", or the exception raised
    dtResult,       \* the set delaunay_triangulation returned
    built,          \* the classes of plane.py instantiated since the user's call
    voPc,           \* voronoi_diagram: "idle", "waiting" (in delaunay_triangulation), "done"
    voOutcome,      \* "none", "returned", or the exception raised
    voSegments,     \* the set `segments` returned
    voRays          \* the set `rays` returned

hullVars == <<chPc, chRun, chStack, hull, chOutcome>>
dtVars == <<dtPc, dtTodo, dtOrder, triangulation, dtOutcome, dtResult>>
voVars == <<voPc, voOutcome, voSegments, voRays>>
vars == <<pts, hullVars, caller, dtVars, built, voVars>>

CallFrame(points, p1, p2) == [kind |-> "call", points |-> points, p1 |-> p1, p2 |-> p2]
AppendFrame(p) == [kind |-> "append", points |-> {}, p1 |-> p, p2 |-> p]

HullIdle ==
    /\ chPc = "idle" /\ chRun = 1 /\ chStack = <<>>
    /\ hull = <<>> /\ chOutcome = "none"

DtIdle ==
    /\ caller = "none" /\ dtPc = "idle" /\ dtTodo = {} /\ dtOrder = <<>>
    /\ triangulation = {} /\ dtOutcome = "none" /\ dtResult = {} /\ built = {}
    /\ voPc = "idle" /\ voOutcome = "none" /\ voSegments = {} /\ voRays = {}

InitHull ==
    /\ pts \in {S \in SUBSET HullGrid : Cardinality(S) <= MaxHullPoints}
    /\ HullIdle
    /\ DtIdle

\* algorithms.py 39-42: the scan for the leftmost and the rightmost point.
RECURSIVE ScanMinX(_, _, _)
ScanMinX(order, i, min_x) ==
    IF i > Len(order) - 2 THEN min_x
    ELSE ScanMinX(order, i + 1,
                  IF RLt(order[i + 2].x, min_x.x) THEN order[i + 2] ELSE min_x)

RECURSIVE ScanMaxX(_, _, _)
ScanMaxX(order, i, max_x) ==
    LET n == Len(order) IN
    IF i > n - 2 THEN max_x
    ELSE ScanMaxX(order, i + 1,
                  IF RLt(max_x.x, order[n - 1 - i].x) THEN order[n - 1 - i] ELSE max_x)

\* The pairs <<min_x, max_x>> the scan can end with, over the orders of list(points).
Extremes(points) ==
    {<<ScanMinX(o, 0, o[1]), ScanMaxX(o, 0, o[Len(o)])>> : o \in Orders(points)}

\* algorithms.py 46 and 48: the candidates of the two outermost find_hull calls.
AboveLine(points, line) == {p \in points : IsStrictlyBelow(line, p)}
\* The candidates of line 48 with min_x and max_x left in.
NotAboveWithEnds(points, line, min_x, max_x) ==
    {p \in points : ~IsStrictlyBelow(line, p)}

NotAboveLine(points, line, min_x, max_x) ==
    {p \in points : ~IsStrictlyBelow(line, p)} \ {min_x, max_x}

\* algorithms.py 12-14: three points or fewer are returned as list(points).
IsSmall(points) == Cardinality(points) <= 3

\* convex_hull up to its first call of find_hull.
StartHull(points) ==
    IF IsSmall(points)
    THEN /\ hull' \in Orders(points)
         /\ chStack' = <<>>
         /\ chOutcome' = "returned"
         /\ chPc' = "done"
    ELSE \E e \in Extremes(points) :
         LET min_x == e[1]
             max_x == e[2]
         IN  IF FromTwoPointsRaises(min_x, max_x)
             THEN /\ hull' = <<>>
                  /\ chStack' = <<>>
                  /\ chOutcome' = "Exception"
                  /\ chPc' = "done"
             ELSE LET line == FromTwoPoints(min_x, max_x)
                  IN  /\ hull' = <<min_x>>
                      /\ chStack' = <<CallFrame(AboveLine(points, line), min_x, max_x),
                                      AppendFrame(max_x),
                                      CallFrame(NotAboveLine(points, line, min_x, max_x),
                                                max_x, min_x)>>
                      /\ chOutcome' = "none"
                      /\ chPc' = "running"

ConvexHullCall ==
    /\ chPc = "idle"
    /\ StartHull(pts)
    /\ UNCHANGED <<pts, chRun, caller, dtVars, built, voVars>>

\* The points max() can return: the candidates furthest from main_line.
Furthest(points, main_line) ==
    LET dist == [p \in points |-> LineDistanceSq(main_line, p)]
    IN  {p \in points : \A q \in points : ~RLt(dist[p], dist[q])}

\* algorithms.py 24: the candidates kept, those not strictly inside the triangle.
HullKept(points, p1, p2, fp) ==
    {p \in points : ~TriangleStrictlyContains(p1, fp, p2, p)} \ {fp}

\* algorithms.py 28-33: which kept candidate goes to s1 (the others go to s2).
GoesToS1(main_line, line_p1fp, fp, p) ==
    IF IsStrictlyBelow(main_line, fp)
    THEN IsStrictlyBelow(line_p1fp, p) \/ LineContains(line_p1fp, p)
    ELSE ~IsStrictlyBelow(line_p1fp, p)

\* One call of find_hull, up to its first recursive call.
FindHull ==
    /\ chPc = "running"
    /\ chStack # <<>>
    /\ Head(chStack).kind = "call"
    /\ LET f == Head(chStack) IN
       IF f.points = {}
       THEN /\ chStack' = Tail(chStack)
            /\ UNCHANGED <<chPc, chOutcome>>
       ELSE IF FromTwoPointsRaises(f.p1, f.p2)
       THEN /\ chStack' = <<>>
            /\ chOutcome' = "Exception"
            /\ chPc' = "done"
       ELSE \E fp \in Furthest(f.points, FromTwoPoints(f.p1, f.p2)) :
            IF FromTwoPointsRaises(f.p1, fp)
            THEN /\ chStack' = <<>>
                 /\ chOutcome' = "Exception"
                 /\ chPc' = "done"
            ELSE LET main_line == FromTwoPoints(f.p1, f.p2)
                     line_p1fp == FromTwoPoints(f.p1, fp)
                     kept == HullKept(f.points, f.p1, f.p2, fp)
                     s1 == {p \in kept : GoesToS1(main_line, line_p1fp, fp, p)}
                     s2 == kept \ s1
                 IN  /\ chStack' = <<CallFrame(s1, f.p1, fp),
                                     AppendFrame(fp),
                                     CallFrame(s2, fp, f.p2)>> \o Tail(chStack)
                     /\ UNCHANGED <<chPc, chOutcome>>
    /\ UNCHANGED <<pts, chRun, hull, caller, dtVars, built, voVars>>

\* hull.append(furthest_point), hull.append(max_x).
HullAppend ==
    /\ chPc = "running"
    /\ chStack # <<>>
    /\ Head(chStack).kind = "append"
    /\ hull' = Append(hull, Head(chStack).p1)
    /\ chStack' = Tail(chStack)
    /\ UNCHANGED <<pts, chPc, chRun, chOutcome, caller, dtVars, built, voVars>>

\* return hull
ConvexHullReturn ==
    /\ chPc = "running"
    /\ chStack = <<>>
    /\ chPc' = "done"
    /\ chOutcome' = "returned"
    /\ UNCHANGED <<pts, chRun, chStack, hull, caller, dtVars, built, voVars>>

\* The caller runs convex_hull again, on the set of the points it returned.
ConvexHullAgain ==
    /\ chPc = "done"
    /\ chRun = 1
    /\ chOutcome = "returned"
    /\ chRun' = 2
    /\ pts' = SetOf(hull)
    /\ StartHull(SetOf(hull))
    /\ UNCHANGED <<caller, dtVars, built, voVars>>

NextHull == ConvexHullCall \/ FindHull \/ HullAppend \/ ConvexHullReturn \/ ConvexHullAgain

SpecHull == InitHull /\ [][NextHull]_vars


(***************************************************************************)
(* algorithms.py: delaunay_triangulation (Bowyer-Watson)                   *)
(***************************************************************************)
RMin(S) == CHOOSE a \in S : \A b \in S : ~RLt(b, a)
RMax(S) == CHOOSE a \in S : \A b \in S : ~RLt(a, b)

\* The test of line 58 with the bound one lower: two points enter the loop.
TooFewBelowTwo(points) == Cardinality(points) <= 1

\* algorithms.py 58: fewer than three points.
DelaunayTooFew(points) == Cardinality(points) <= 2

\* algorithms.py 62-69, with min_x, max_x, min_y, max_y the extreme coordinates.
\* The two lines have slopes h and -h with h >= 2, so Line.intersection never
\* returns None here.
SuperTriangleOf(min_x, max_x, min_y, max_y) ==
    Triangle(Point(RSub(min_x, I(1)), RSub(min_y, I(1))),
             Point(RAdd(max_x, I(1)), RSub(min_y, I(1))),
             Intersection(
                 FromTwoPoints(Point(RSub(min_x, I(1)), RSub(min_y, I(1))),
                               Point(min_x, RAdd(max_y, I(1)))),
                 FromTwoPoints(Point(RAdd(max_x, I(1)), RSub(min_y, I(1))),
                               Point(max_x, RAdd(max_y, I(1))))))

\* algorithms.py 60-69.
SuperTriangle(points) ==
    SuperTriangleOf(RMin({p.x : p \in points}), RMax({p.x : p \in points}),
                    RMin({p.y : p \in points}), RMax({p.y : p \in points}))

\* algorithms.py 72-74.
BadTriangles(tri, p) == {t \in tri : CircleStrictlyContains(FromTriangle(t), p)}

\* The polygon with the edges two bad triangles share left in.
AllEdges(bad) == UNION {Edges(t) : t \in bad}

\* algorithms.py 75-84: an edge is added when absent and removed when present,
\* so the edges left are those of an odd number of bad triangles.
Polygon(bad) ==
    {e \in UNION {Edges(t) : t \in bad} :
        Cardinality({t \in bad : e \in Edges(t)}) % 2 = 1}

\* algorithms.py 75-86, for the set bad_triangles of the pass; `built` names the
\* classes the pass instantiates.
Reconnect(tri, p, bad) ==
    IF \E t \in bad : EdgesRaise(t)
    THEN [outcome |-> "Exception", tri |-> tri, built |-> {"Circle"}]
    ELSE [outcome |-> "ok",
          tri |-> (tri \ bad) \cup {Triangle(e[1], e[2], p) : e \in Polygon(bad)},
          built |-> {"Circle"} \cup
                    (IF bad # {} THEN {"Segment", "Triangle"} ELSE {})]

\* algorithms.py 72-86: one pass of the loop body, for the point p.
InsertStep(tri, p) ==
    IF \E t \in tri : FromTriangleRaises(t)
    THEN [outcome |-> "ZeroDivisionError", tri |-> tri, built |-> {"Circle"}]
    ELSE Reconnect(tri, p, BadTriangles(tri, p))

\* class Triangle with a shares_vertex that shares_point stands for.
SharesVertexDefined == FALSE

\* algorithms.py 88 calls triangle.shares_vertex, which class Triangle does not
\* define: the attribute lookup raises AttributeError.
SharesVertexRaises == "shares_vertex" \notin TriangleMethods

\* algorithms.py 87-89.  The comprehension calls shares_vertex on each triangle of
\* the set, so an empty set is returned without a call.
DelaunayFilter(tri, super_triangle) ==
    IF tri # {} /\ SharesVertexRaises
    THEN [outcome |-> "AttributeError", result |-> {}]
    ELSE [outcome |-> "returned",
          result |-> tri \ {t \in tri : SharesPoint(t, super_triangle)}]

\* delaunay_triangulation up to the loop.
StartDelaunay(points) ==
    IF DelaunayTooFew(points)
    THEN /\ dtPc' = "done"
         /\ dtOutcome' = "returned"
         /\ dtResult' = {}
         /\ UNCHANGED <<dtTodo, dtOrder, triangulation, built>>
    ELSE /\ dtPc' = "loop"
         /\ triangulation' = {SuperTriangle(points)}
         /\ dtTodo' = points
         /\ built' = built \cup {"Point", "Line", "Triangle"}
         /\ UNCHANGED <<dtOrder, dtOutcome, dtResult>>

DelaunayCall ==
    /\ caller = "none"
    /\ chPc = "idle"
    /\ caller' = "delaunay"
    /\ StartDelaunay(pts)
    /\ UNCHANGED <<pts, hullVars, voVars>>

\* The effect of the pass for p, `step` being what InsertStep computed.
TakeStep(p, step) ==
    /\ dtOrder' = Append(dtOrder, p)
    /\ built' = built \cup step.built
    /\ IF step.outcome = "ok"
       THEN /\ triangulation' = step.tri
            /\ dtTodo' = dtTodo \ {p}
            /\ UNCHANGED <<dtPc, dtOutcome, dtResult>>
       ELSE /\ dtPc' = "done"
            /\ dtOutcome' = step.outcome
            /\ UNCHANGED <<triangulation, dtTodo, dtResult>>

\* One pass of `for p in points`.
InsertPoint ==
    /\ dtPc = "loop"
    /\ \E p \in dtTodo : TakeStep(p, InsertStep(triangulation, p))
    /\ UNCHANGED <<pts, hullVars, caller, voVars>>

\* The end of delaunay_triangulation, `f` being what DelaunayFilter computed.
FinishWith(f) ==
    /\ dtOutcome' = f.outcome
    /\ dtResult' = f.result
    /\ dtPc' = "done"

\* After the loop: the removal of the super-triangle's triangles, and the return.
DelaunayFinish ==
    /\ dtPc = "loop"
    /\ dtTodo = {}
    /\ FinishWith(DelaunayFilter(triangulation, SuperTriangle(pts)))
    /\ UNCHANGED <<pts, hullVars, caller, dtTodo, dtOrder, triangulation, built, voVars>>

\* delaunay_triangulation as a function of the insertion order: the loop from the
\* i-th point of the order on, `step` being the pass for the i-th point.
RECURSIVE LoopFrom(_, _, _)
LoopAfter(step, order, i) ==
    IF step.outcome = "ok" THEN LoopFrom(step.tri, order, i + 1)
    ELSE [outcome |-> step.outcome, tri |-> step.tri]

LoopFrom(tri, order, i) ==
    IF i > Len(order) THEN [outcome |-> "ok", tri |-> tri]
    ELSE LoopAfter(InsertStep(tri, order[i]), order, i)

AfterLoop(loop, super_triangle) ==
    IF loop.outcome = "ok"
    THEN DelaunayFilter(loop.tri, super_triangle)
    ELSE [outcome |-> loop.outcome, result |-> {}]

DelaunayRun(points, order) ==
    IF DelaunayTooFew(points) THEN [outcome |-> "returned", result |-> {}]
    ELSE AfterLoop(LoopFrom({SuperTriangle(points)}, order, 1), SuperTriangle(points))

(***************************************************************************)
(* algorithms.py: voronoi_diagram                                          *)
(***************************************************************************)
\* algorithms.py 93: fewer than three points.
VoronoiTooFew(points) == Cardinality(points) <= 2

\* algorithms.py 99-100.
Circumcenter(t) == Point(FromTriangle(t).h, FromTriangle(t).k)

\* The triangles an edge belongs to.
TrianglesOf(triangles, e) == {t \in triangles : e \in Edges(t)}

\* The point of triangle t that is not an end of its edge e.
ThirdPoint(t, e) == CHOOSE q \in {t[1], t[2], t[3]} : q # e[1] /\ q # e[2]

\* algorithms.py 102-105: the flag recorded for edge e of triangle t.
EdgeBelowPoint(t, e) == IsStrictlyBelow(FromTwoPoints(e[1], e[2]), ThirdPoint(t, e))

\* algorithms.py 120-126, for the orthogonal line.  The angle is kept as the
\* branch taken, the slope whose arctangent is taken, and whether pi is added.
AngleOf(line, below) ==
    IF line.a = Zero
    THEN [branch |-> "horizontal", slope |-> Zero, plus_pi |-> below]
    ELSE IF line.b = Zero
    THEN [branch |-> "vertical", slope |-> Zero, plus_pi |-> below]
    ELSE [branch |-> IF ~RLt(Slope(line), Zero) THEN "atan" ELSE "pi_minus_atan",
          slope |-> Slope(line), plus_pi |-> below]

\* algorithms.py 117-126.
RayAngle(e, below) ==
    AngleOf(OrthogonalLine(FromTwoPoints(e[1], e[2]), Midpoint(e[1], e[2])), below)

Ray(p, angle) == [p |-> p, angle |-> angle]

\* circumcenters1[edge] and circumcenters2[edge] of an edge of two triangles.
Centers(triangles, e) == {Circumcenter(t) : t \in TrianglesOf(triangles, e)}

OneOf(c) == CHOOSE q \in c : TRUE

\* algorithms.py 115: Segment(point, other_point).
CenterSegment(c) == Segment(OneOf(c), CHOOSE q \in c : q # OneOf(c))

\* algorithms.py 117-127: the ray of an edge of one triangle t.
EdgeRay(t, e) == Ray(Circumcenter(t), RayAngle(e, EdgeBelowPoint(t, e)))

\* algorithms.py 112-128, `shared` being the edges circumcenters2 has and `single`
\* the others.  Segment raises when the two circumcenters of an edge are equal.
VoronoiEdges(triangles, shared, single) ==
    IF \E e \in shared : Cardinality(Centers(triangles, e)) = 1
    THEN [outcome |-> "Exception", segments |-> {}, rays |-> {}]
    ELSE [outcome |-> "returned",
          segments |-> {CenterSegment(Centers(triangles, e)) : e \in shared},
          rays |-> {EdgeRay(OneOf(TrianglesOf(triangles, e)), e) : e \in single}]

\* algorithms.py 96-128, for the triangles delaunay_triangulation returned.
VoronoiBody(triangles) ==
    IF \E t \in triangles : FromTriangleRaises(t)
    THEN [outcome |-> "ZeroDivisionError", segments |-> {}, rays |-> {}]
    ELSE IF \E t \in triangles : EdgesRaise(t)
    THEN [outcome |-> "Exception", segments |-> {}, rays |-> {}]
    ELSE VoronoiEdges(triangles,
             {e \in UNION {Edges(t) : t \in triangles} :
                 Cardinality(TrianglesOf(triangles, e)) >= 2},
             {e \in UNION {Edges(t) : t \in triangles} :
                 Cardinality(TrianglesOf(triangles, e)) < 2})

VoronoiCall ==
    /\ caller = "none"
    /\ chPc = "idle"
    /\ caller' = "voronoi"
    /\ IF VoronoiTooFew(pts)
       THEN /\ voPc' = "done"
            /\ voOutcome' = "returned"
            /\ voSegments' = {}
            /\ voRays' = {}
            /\ UNCHANGED <<dtVars, built>>
       ELSE /\ voPc' = "waiting"
            /\ StartDelaunay(pts)
            /\ UNCHANGED <<voOutcome, voSegments, voRays>>
    /\ UNCHANGED <<pts, hullVars>>

\* The end of voronoi_diagram, `v` being what VoronoiBody computed.
ReturnWith(v) ==
    /\ voOutcome' = v.outcome
    /\ voSegments' = v.segments
    /\ voRays' = v.rays
    /\ built' = built \cup (IF dtResult # {}
                            THEN {"Circle", "Point", "Segment", "Line"} ELSE {})

\* voronoi_diagram after its call of delaunay_triangulation has ended.
VoronoiResume ==
    /\ voPc = "waiting"
    /\ dtPc = "done"
    /\ voPc' = "done"
    /\ IF dtOutcome # "returned"
       THEN /\ voOutcome' = dtOutcome
            /\ UNCHANGED <<voSegments, voRays, built>>
       ELSE ReturnWith(VoronoiBody(dtResult))
    /\ UNCHANGED <<pts, hullVars, caller, dtVars>>

InitDelaunay ==
    /\ pts \in {S \in SUBSET DtGrid : Cardinality(S) <= MaxDtPoints}
    /\ HullIdle
    /\ DtIdle

NextDelaunay ==
    DelaunayCall \/ InsertPoint \/ DelaunayFinish \/ VoronoiCall \/ VoronoiResume

SpecDelaunay == InitDelaunay /\ [][NextDelaunay]_vars

(***************************************************************************)
(* Geometry the claims are stated with (exact, independent of the code).   *)
(***************************************************************************)
\* Twice the signed area of the triangle o, a, b: > 0 for a left turn.
Cross(o, a, b) ==
    RSub(RMul(RSub(a.x, o.x), RSub(b.y, o.y)), RMul(RSub(a.y, o.y), RSub(b.x, o.x)))

Sign(r) == IF r[1] > 0 THEN 1 ELSE IF r[1] < 0 THEN -1 ELSE 0

RLe(a, b) == ~RLt(b, a)

Between(u, v, w) == (RLe(u, w) /\ RLe(w, v)) \/ (RLe(v, w) /\ RLe(w, u))

\* p lies on the closed segment a-b.
OnSegment(a, b, p) ==
    /\ Cross(a, b, p) = Zero
    /\ Between(a.x, b.x, p.x)
    /\ Between(a.y, b.y, p.y)

\* The vertex after the i-th of the closed polygon h.
NextIdx(h, i) == IF i = Len(h) THEN 1 ELSE i + 1

\* The winding number of the closed polygon h around p (p not on an edge).
RECURSIVE WindingFrom(_, _, _)
WindingFrom(h, p, i) ==
    IF i > Len(h) THEN 0
    ELSE LET a == h[i]
             b == h[NextIdx(h, i)]
             step == IF RLe(a.y, p.y)
                     THEN IF RLt(p.y, b.y) /\ Sign(Cross(a, b, p)) > 0 THEN 1 ELSE 0
                     ELSE IF RLe(b.y, p.y) /\ Sign(Cross(a, b, p)) < 0 THEN -1 ELSE 0
         IN  step + WindingFrom(h, p, i + 1)

\* p is on the boundary of the polygon h or inside it (by any winding rule).
InPolygon(h, p) ==
    \/ \E i \in 1..Len(h) : OnSegment(h[i], h[NextIdx(h, i)], p)
    \/ WindingFrom(h, p, 1) # 0

\* The turn at the vertex after the i-th.
Turn(h, i) == Sign(Cross(h[i], h[NextIdx(h, i)], h[NextIdx(h, NextIdx(h, i))]))

SameSenseTurns(h) ==
    \/ \A i \in 1..Len(h) : Turn(h, i) >= 0
    \/ \A i \in 1..Len(h) : Turn(h, i) <= 0

NoRepeats(h) == \A i, j \in 1..Len(h) : h[i] = h[j] => i = j

\* The segments a-b and c-d cross in a point interior to both.
ProperlyCross(a, b, c, d) ==
    /\ Sign(Cross(a, b, c)) * Sign(Cross(a, b, d)) < 0
    /\ Sign(Cross(c, d, a)) * Sign(Cross(c, d, b)) < 0

Square == {Point(I(0), I(0)), Point(I(0), I(1)), Point(I(1), I(0)), Point(I(1), I(1))}

HullReturned == chPc = "done" /\ chOutcome = "returned"

(***************************************************************************)
(* The claims about convex_hull.                                           *)
(***************************************************************************)
\* C1: every input point lies on the boundary of, or inside, the polygon whose
\* vertices are the returned sequence, read in order.
C1_InputInsideHullPolygon ==
    HullReturned => \A p \in pts : InPolygon(hull, p)

\* C2: the returned sequence, read in order, is a simple convex polygon: no vertex
\* twice, and all consecutive edge turns of one rotational sense or zero.
C2_HullIsConvexPolygon ==
    HullReturned => NoRepeats(hull) /\ SameSenseTurns(hull)

\* C3: the hull of the unit square is its four corners, each once, in an order
\* that closes a quadrilateral whose opposite sides do not cross.
C3_SquareHull ==
    (chPc = "done" /\ chRun = 1 /\ pts = Square) =>
        /\ chOutcome = "returned"
        /\ Len(hull) = 4
        /\ SetOf(hull) = Square
        /\ ~ProperlyCross(hull[1], hull[2], hull[3], hull[4])
        /\ ~ProperlyCross(hull[2], hull[3], hull[4], hull[1])

\* C4: convex_hull run on the set of points it returned returns that set of points.
C4_HullIdempotent ==
    (chPc = "done" /\ chRun = 2) => chOutcome = "returned" /\ SetOf(hull) = pts

(***************************************************************************)
(* Geometry the claims about the triangulation are stated with.            *)
(***************************************************************************)
Wedge(u, v) == RSub(RMul(u.x, v.y), RMul(v.x, u.y))

Minus(p, q) == Point(RSub(p.x, q.x), RSub(p.y, q.y))

\* The in-circle determinant of a, b, c, each given relative to the fourth point.
InCircleDet(a, b, c) ==
    RAdd(RSub(RMul(Dot(a, a), Wedge(b, c)), RMul(Dot(b, b), Wedge(a, c))),
         RMul(Dot(c, c), Wedge(a, b)))

\* d lies on the circle through a, b and c.
OnOneCircle(a, b, c, d) ==
    /\ Cross(a, b, c) # Zero
    /\ InCircleDet(Minus(a, d), Minus(b, d), Minus(c, d)) = Zero

NoFourCocircular(S) ==
    \A a, b, c, d \in S :
        Cardinality({a, b, c, d}) = 4 => ~OnOneCircle(a, b, c, d)

Collinear(S) == \A a, b, c \in S : Cross(a, b, c) = Zero

\* Twice the area of a triangle.
TriangleArea2(t) == RAbs(Cross(t[1], t[2], t[3]))

RECURSIVE SumArea2(_)
AddArea2(T, t) == RAdd(TriangleArea2(t), SumArea2(T \ {t}))
SumArea2(T) == IF T = {} THEN Zero ELSE AddArea2(T, CHOOSE t \in T : TRUE)

\* a-b is a side of the convex hull of S, S to its left.
HullEdge(S, a, b) ==
    /\ a # b
    /\ \A p \in S : Sign(Cross(a, b, p)) > 0 \/ OnSegment(a, b, p)

RECURSIVE SumWedge(_)
AddWedge(E, e) == RAdd(Wedge(e[1], e[2]), SumWedge(E \ {e}))
SumWedge(E) == IF E = {} THEN Zero ELSE AddWedge(E, CHOOSE e \in E : TRUE)

\* Twice the area of the convex hull of S (the shoelace formula on its sides).
HullArea2(S) == SumWedge({e \in S \X S : HullEdge(S, e[1], e[2])})

\* A side of triangle t has t on one side and u on the other.
Separates(t, u) ==
    \E i \in 1..3 : \A j \in 1..3 :
        Sign(Cross(t[i], t[NextIdx(t, i)], t[NextIdx(t, NextIdx(t, i))]))
            * Sign(Cross(t[i], t[NextIdx(t, i)], u[j])) <= 0

InteriorsDisjoint(t, u) == Separates(t, u) \/ Separates(u, t)

\* The points of S from the first to the last in PointBefore order.
RECURSIVE SortedOrder(_)
SortedFrom(S, first) == <<first>> \o SortedOrder(S \ {first})
SortedOrder(S) ==
    IF S = {} THEN <<>>
    ELSE SortedFrom(S, CHOOSE p \in S : \A q \in S : ~PointBefore(q, p))

ShapeClasses == {"Line", "Segment", "Triangle", "Circle"}

(***************************************************************************)
(* The claims about delaunay_triangulation and voronoi_diagram.            *)
(***************************************************************************)
\* C5: for at least three points delaunay_triangulation returns a set of
\* triangles, and no returned triangle's circumcircle strictly contains an input
\* point.
C5_EmptyCircumcircle ==
    (dtPc = "done" /\ Cardinality(pts) >= 3) =>
        /\ dtOutcome = "returned"
        /\ \A t \in dtResult :
            /\ ~FromTriangleRaises(t)
            /\ \A p \in pts : ~CircleStrictlyContains(FromTriangle(t), p)

\* C6: for at least three points, not all on one line, the returned triangles
\* have pairwise disjoint interiors and their areas sum to the area of the convex
\* hull of the input.
C6_TrianglesTileHull ==
    (dtPc = "done" /\ Cardinality(pts) >= 3 /\ ~Collinear(pts)) =>
        /\ dtOutcome = "returned"
        /\ \A t \in dtResult : TriangleArea2(t) # Zero
        /\ \A t, u \in dtResult : t # u => InteriorsDisjoint(t, u)
        /\ SumArea2(dtResult) = HullArea2(pts)

\* C7: delaunay_triangulation on three collinear points ends in a DegenerateInput
\* failure: it returns nothing and fails in no other way.
C7_CollinearIsDegenerateInput ==
    (dtPc = "done" /\ Cardinality(pts) = 3 /\ Collinear(pts)) =>
        dtOutcome = "DegenerateInput"

\* C8: with fewer than three points delaunay_triangulation returns the empty set
\* and voronoi_diagram returns two empty sets, both at once: no error, no pass of
\* the loop, no call of delaunay_triangulation by voronoi_diagram, and no Line,
\* Segment, Triangle or Circle built.
C8_TooFewPointsShortCircuit ==
    (Cardinality(pts) <= 2 /\ caller # "none") =>
        /\ built \cap ShapeClasses = {}
        /\ caller = "delaunay" =>
            dtPc = "done" /\ dtOutcome = "returned" /\ dtResult = {}
        /\ caller = "voronoi" =>
            /\ voPc = "done" /\ voOutcome = "returned"
            /\ voSegments = {} /\ voRays = {}
            /\ dtPc = "idle"

C8_TwoPointsToVoronoi ==
    Cardinality(pts) = 2 /\ caller = "voronoi" /\ voPc = "done"

C10_SharedEdgeSegment ==
    (voPc = "done" /\ Cardinality(pts) >= 3) =>
        /\ voOutcome = "returned"
        /\ \A t, u \in dtResult :
            (t # u /\ Edges(t) \cap Edges(u) # {}) =>
                InOrder(Circumcenter(t), Circumcenter(u)) \in voSegments

\* The vertices of a triangle.
Vertices(t) == {t[1], t[2], t[3]}

\* C11: for at least three points delaunay_triangulation completes and returns,
\* and every vertex of every returned triangle is an input point: the triangles
\* with a vertex of the super-triangle have been discarded.
C11_SuperTriangleDiscarded ==
    (dtPc = "done" /\ Cardinality(pts) >= 3) =>
        /\ dtOutcome = "returned"
        /\ \A t \in dtResult :
            /\ Vertices(t) \subseteq pts
            /\ Vertices(t) \cap Vertices(SuperTriangle(pts)) = {}

(***************************************************************************)
(* The claims about find_hull.                                             *)
(***************************************************************************)
\* A pending call of find_hull whose candidates all lie on the line p1-p2.
ZeroDistanceCall(f) ==
    /\ f.kind = "call"
    /\ f.points # {}
    /\ \A p \in f.points : Cross(f.p1, f.p2, p) = Zero

\* The frames of stack that stand for the appending of a point of S.
AppendsOf(stack, S) ==
    {i \in 1..Len(stack) : stack[i].kind = "append" /\ stack[i].p1 \in S}

\* The step taken from a call whose candidates set is S adds no call with as many
\* candidates or more: the recursion ends.
CallsShrink(stack, rest, S) ==
    \A i \in 1..(Len(stack) - Len(rest)) :
        stack[i].kind = "call" => Cardinality(stack[i].points) < Cardinality(S)

\* C12: a call of find_hull whose candidates all lie on the line p1-p2 ends the
\* recursion and appends none of them: the step leaves the list hull as it is and
\* schedules no hull.append of a candidate.
C12_ZeroDistanceNotAppended ==
    [][(chPc = "running" /\ chStack # <<>> /\ ZeroDistanceCall(Head(chStack))) =>
        /\ hull' = hull
        /\ CallsShrink(chStack', Tail(chStack), Head(chStack).points)
        /\ AppendsOf(chStack', Head(chStack).points) = {}]_vars

(***************************************************************************)
(* The claims about the rays of voronoi_diagram.                           *)
(***************************************************************************)
\* A vector along the direction an angle of RayAngle stands for: 0 or pi/2 for
\* the first two branches, atan(slope) or pi - |atan(slope)| for the third, and
\* the opposite direction when pi is added.
BaseDirection(angle) ==
    IF angle.branch = "horizontal" THEN Point(I(1), Zero)
    ELSE IF angle.branch = "vertical" THEN Point(Zero, I(1))
    ELSE IF angle.branch = "atan" THEN Point(I(1), angle.slope)
    ELSE Point(I(-1), RNeg(angle.slope))

Direction(angle) ==
    IF angle.plus_pi
    THEN Point(RNeg(BaseDirection(angle).x), RNeg(BaseDirection(angle).y))
    ELSE BaseDirection(angle)

\* The angle is in [0, 2 pi): atan is taken of a non-negative slope only.
AngleInRange(angle) ==
    /\ angle.branch = "atan" => ~RLt(angle.slope, Zero)
    /\ angle.branch = "pi_minus_atan" => RLt(angle.slope, Zero)

\* r starts at the circumcenter of t, is perpendicular to the edge e of t and
\* points to the side of e where the third point of t is not.
RayOfEdge(r, t, e) ==
    /\ r.p = Circumcenter(t)
    /\ AngleInRange(r.angle)
    /\ Dot(Direction(r.angle), Minus(e[2], e[1])) = Zero
    /\ RLt(Dot(Direction(r.angle), Minus(ThirdPoint(t, e), e[1])), Zero)

\* The edges of exactly one of the triangles, each with its triangle.
SingleEdges(triangles) ==
    {te \in triangles \X UNION {Edges(t) : t \in triangles} :
        TrianglesOf(triangles, te[2]) = {te[1]}}

\* C13: voronoi_diagram on at least three points returns, and for every edge of
\* exactly one Delaunay triangle exactly one returned ray starts at the
\* triangle's circumcenter, is perpendicular to the edge and points away from
\* the triangle's third point, with an angle in [0, 2 pi); there is no other ray.
C13_RayPerSingleEdge ==
    (voPc = "done" /\ Cardinality(pts) >= 3) =>
        /\ voOutcome = "returned"
        /\ \A te \in SingleEdges(dtResult) :
            Cardinality({r \in voRays : RayOfEdge(r, te[1], te[2])}) = 1
        /\ \A r \in voRays :
            \E te \in SingleEdges(dtResult) : RayOfEdge(r, te[1], te[2])

(***************************************************************************)
(* The claim about the loop of delaunay_triangulation.                     *)
(***************************************************************************)
\* p is strictly inside the circle through the points of the triangle t.
StrictlyInCircumcircle(t, p) ==
    Sign(InCircleDet(Minus(t[1], p), Minus(t[2], p), Minus(t[3], p)))
        * Sign(Cross(t[1], t[2], t[3])) > 0

\* C14: after each pass of the loop, no pass having failed, every point inserted
\* so far is a vertex of a triangle of the working set, every triangle of the
\* working set has three points not on one line (Circle.from_triangle does not
\* divide by zero), and no point inserted so far is strictly inside the
\* circumcircle of a triangle of the working set.
C14_LoopInvariant ==
    /\ dtOutcome \notin {"ZeroDivisionError", "Exception"}
    /\ \A p \in SetOf(dtOrder) : \E t \in triangulation : p \in Vertices(t)
    /\ \A t \in triangulation :
        /\ Cross(t[1], t[2], t[3]) # Zero
        /\ ~FromTriangleRaises(t)
        /\ \A p \in SetOf(dtOrder) : ~StrictlyInCircumcircle(t, p)

C14_FourOnOneCircleInserted ==
    /\ dtPc = "loop"
    /\ dtTodo = {}
    /\ Cardinality(pts) = 4
    /\ ~NoFourCocircular(pts)
    /\ Cardinality(triangulation) > 4

\* No pending call of find_hull has p1 or p2 among its candidates, or p1 = p2.
CallsExcludeEnds(stack) ==
    \A i \in 1..Len(stack) :
        stack[i].kind = "call" =>
            /\ stack[i].p1 \notin stack[i].points
            /\ stack[i].p2 \notin stack[i].points
            /\ stack[i].p1 # stack[i].p2

\* The stack after the call f of find_hull has taken its furthest point: the
\* calls for s1 and s2 around the appending of the furthest point, s1 and s2
\* disjoint and among the candidates of f other than the furthest point.
Partitioned(stack, f) ==
    /\ Len(stack) >= 3
    /\ stack[1].kind = "call" /\ stack[2].kind = "append" /\ stack[3].kind = "call"
    /\ stack[2].p1 \in f.points
    /\ stack[1].points \cap stack[3].points = {}
    /\ (stack[1].points \cup stack[3].points) \subseteq (f.points \ {stack[2].p1})

HullOfInputPoints ==
    /\ chOutcome # "Exception"
    /\ CallsExcludeEnds(chStack)
    /\ (HullReturned /\ Cardinality(pts) > 3) =>
        SetOf(hull) \subseteq pts /\ NoRepeats(hull)

====
